---- MODULE Spec2Model ----
(***************************************************************************)
(* A model of the gravity simulation of BasicOrbitSimulationPy:            *)
(*   kinematics.py     Kinematics (mutual force, one integration pass)     *)
(*   data_handling.py  SimObjectData, SimObject                            *)
(*   simulator.py      Simulation (configuration, registry, run)           *)
(*   vector.py         Vector, zeroVec                                     *)
(*                                                                         *)
(* numpy.float64 values are modelled as exact extended rationals <<n, d>>  *)
(* (d > 0 a finite value in lowest terms, <<1,0>> = inf, <<-1,0>> = -inf,  *)
(* <<0,0>> = nan); rounding is not modelled.                               *)
(***************************************************************************)
EXTENDS Integers, Sequences, FiniteSets, TLC

VARIABLES
    config,             \* Simulation._dt, _G, ... : field name -> value (or Unset)
    simulation_running, \* Simulation.__simulation_running
    simulation_data,    \* Simulation.__simulation_data : sequence of SimObject
    SimObjectData,      \* the class-level lists SimObjectData.position/velocity/speed
    pc,                 \* "configured", "animating" (inside plt.show()), "stopped"
    call,               \* the last call made on the program and its arguments
    raised,             \* the exception that call ended with ("None": it returned)
    returned,           \* the value that call returned (None: nothing, or it raised)
    mutualForceCalls,   \* the calls of calculateMutualForce that call made
    iteration,          \* the frames FuncAnimation has handed to animate in this run
    animationQuantities, \* _center, _max_center_deviation, _x_limit, _y_limit of the registry
    instances,          \* the Simulation objects constructed so far, numbered from 1
    orbitSimulation_data, \* orbitSimulation.Simulation.data : list of lists of SimObject
    force_vec           \* orbitSimulation: <<i, j>> -> the force the last update summed
                        \* for body i on account of body j

vars == <<config, simulation_running, simulation_data, SimObjectData, pc, call, raised,
          returned, mutualForceCalls, iteration, animationQuantities, instances,
          orbitSimulation_data, force_vec>>

(* ------------------------------ bounds -------------------------------- *)

\* Most bodies a registry is given.
MaxBodies == 3
\* Most completed or attempted integration passes in one behaviour.
MaxSteps == 2
\* A pass is taken only while every coordinate's numerator and denominator
\* stay below this magnitude (keeps the exact arithmetic within range).
MaxMagnitude == 8
\* Most frames the timer of one animation delivers.
MaxFrames == 4
\* Most Simulation objects constructed in one behaviour.
MaxInstances == 2

(* --------------------------- numpy.float64 ---------------------------- *)

Abs(n) == IF n < 0 THEN -n ELSE n

RECURSIVE GCD(_, _)
GCD(a, b) == IF b = 0 THEN a ELSE GCD(b, a % b)

NaN == <<0, 0>>

\* The value n/d (d >= 0) in lowest terms.
Float(n, d) ==
    LET g == GCD(Abs(n), d)
    IN  IF g = 0 THEN NaN ELSE <<n \div g, d \div g>>

FromInt(n) == <<n, 1>>

IsFinite(a) == a[2] > 0

FNeg(a) == <<-a[1], a[2]>>

FAdd(a, b) ==
    IF a[2] = 0 /\ b[2] = 0
    THEN (IF a = b THEN a ELSE NaN)
    ELSE IF a[2] = 0 THEN a
    ELSE IF b[2] = 0 THEN b
    ELSE LET g == GCD(a[2], b[2])
         IN  Float(a[1] * (b[2] \div g) + b[1] * (a[2] \div g), (a[2] \div g) * b[2])

FSub(a, b) == FAdd(a, FNeg(b))

FMul(a, b) ==
    IF a[2] = 0 \/ b[2] = 0
    THEN Float(a[1] * b[1], 0)
    ELSE LET g1 == GCD(Abs(a[1]), b[2])
             g2 == GCD(Abs(b[1]), a[2])
         IN  <<(a[1] \div g1) * (b[1] \div g2), (a[2] \div g2) * (b[2] \div g1)>>

\* 1/a; a finite zero gives inf (numpy warns and does not raise).
FInv(a) ==
    IF a[1] > 0 THEN <<a[2], a[1]>>
    ELSE IF a[1] < 0 THEN <<-a[2], -a[1]>>
    ELSE IF a[2] > 0 THEN <<1, 0>>
    ELSE NaN

FDiv(a, b) == FMul(a, FInv(b))

FLessEq(a, b) == a[1] * b[2] <= b[1] * a[2]

FLess(a, b) == a[1] * b[2] < b[1] * a[2]

(* ------------------------------ Vector -------------------------------- *)

\* A Vector (numpy array of two float64) or, with type "list", a plain
\* Python list of two numbers.
Vec(x, y) == [x |-> x, y |-> y, type |-> "Vector"]

PyList(x, y) == [x |-> x, y |-> y, type |-> "list"]

\* Vector(object): numpy.asarray(object, dtype=float64).view(Vector)
Vector(object) == [x |-> object.x, y |-> object.y, type |-> "Vector"]

zeroVec == Vec(FromInt(0), FromInt(0))

VAdd(u, v) == Vec(FAdd(u.x, v.x), FAdd(u.y, v.y))

VSub(u, v) == Vec(FSub(u.x, v.x), FSub(u.y, v.y))

VScale(s, v) == Vec(FMul(s, v.x), FMul(s, v.y))

Dot(u, v) == FAdd(FMul(u.x, v.x), FMul(u.y, v.y))

\* numpy.linalg.norm(v): the non-negative root of v.v, kept as its radicand.
Norm(v) == [sqrt |-> Dot(v, v)]

VecIsFinite(v) == IsFinite(v.x) /\ IsFinite(v.y)

Last(s) == s[Len(s)]

(* --------------------------- data_handling ---------------------------- *)

\* Python's None.
None == "None"

NoError == "None"

\* SimObjectData.__init__: the initial sample is appended to the lists
\* declared in the class body, which every instance shares.
SimObjectData_init(data, inital_position, inital_velocity) ==
    [position |-> Append(data.position, inital_position),
     velocity |-> Append(data.velocity, inital_velocity),
     speed    |-> Append(data.speed, Norm(inital_velocity))]

\* self.__object_simulation_data of the k-th body, read through the lists it
\* holds: no instance ever assigns position, velocity or speed, so the lookup
\* ends at the lists of the class for every k.
ObjectSimulationData(data, k) == data

\* The per-body histories that Kinematics addresses as _positions,
\* _velocities and _speeds: one entry per sample, entry 1 the initial one.
History(init_position, init_velocity) ==
    [positions  |-> <<init_position>>,
     velocities |-> <<init_velocity>>,
     speeds     |-> <<Norm(init_velocity)>>]

\* SimObject.__init__: a static body is given zeroVec as its velocity.
SimObject(init_position, init_velocity, name, isStatic, mass) ==
    LET h == History(init_position, IF ~isStatic THEN init_velocity ELSE zeroVec)
    IN  [name        |-> name,
         isStatic    |-> isStatic,
         mass        |-> mass,
         _positions  |-> h.positions,
         _velocities |-> h.velocities,
         _speeds     |-> h.speeds]

\* list[-amount:]: -0 is 0, so amount 0 slices from the start.
LatestSlice(list, amount) ==
    IF amount = 0 THEN list
    ELSE IF amount > 0
         THEN SubSeq(list, (IF Len(list) > amount THEN Len(list) - amount + 1 ELSE 1),
                     Len(list))
         ELSE SubSeq(list, 1 - amount, Len(list))

\* str.lower on the strings handed to get_latest.
Lower(arg) ==
    CASE arg = "Position" -> "position"
      [] arg = "SPEED"    -> "speed"
      [] OTHER            -> arg

\* The loop of get_latest over args: data is the SimObjectData of the body.
\* self.__parent is only annotated in the class body and never assigned, so
\* reading it for the two time kinds ends in AttributeError.
RECURSIVE GetLatestLoop(_, _, _, _)
GetLatestLoop(data, args, amount, response) ==
    IF args = <<>> THEN [raised |-> NoError, returned |-> response]
    ELSE LET arg == Lower(args[1])
         IN  CASE arg = "position" ->
                    GetLatestLoop(data, Tail(args), amount,
                                  response \o LatestSlice(data.position, amount))
               [] arg = "velocity" ->
                    GetLatestLoop(data, Tail(args), amount,
                                  response \o LatestSlice(data.velocity, amount))
               [] arg = "speed" ->
                    GetLatestLoop(data, Tail(args), amount,
                                  response \o LatestSlice(data.speed, amount))
               [] arg \in {"simulation_time", "real_time"} ->
                    [raised |-> "AttributeError", returned |-> None]
               [] OTHER -> [raised |-> "KeyError", returned |-> None]

\* SimObject.get_latest
GetLatest(data, args, amount) ==
    GetLatestLoop(data,
                  IF args = <<>>
                  THEN <<"position", "velocity", "speed", "simulation_time", "real_time">>
                  ELSE args,
                  amount, <<>>)

(* ----------------------------- kinematics ----------------------------- *)

\* calculateMutualForce with the principal body's mass taken twice.
calculateMutualForce_ownMass(principleObject, attractorObject, G) ==
    LET r_vec     == VSub(Last(principleObject._positions), Last(attractorObject._positions))
        r_squared == Dot(r_vec, r_vec)
    IN  VScale(FNeg(FDiv(FMul(FMul(G, principleObject.mass), principleObject.mass),
                         r_squared)),
               r_vec)

\* Kinematics.calculateMutualForce
calculateMutualForce(principleObject, attractorObject, G) ==
    LET r_vec     == VSub(Last(principleObject._positions), Last(attractorObject._positions))
        r_squared == Dot(r_vec, r_vec)
        force     == VScale(FNeg(FDiv(FMul(FMul(G, principleObject.mass), attractorObject.mass),
                                      r_squared)),
                            r_vec)
    IN  force

\* previouslyCalulatedMutualForces: row i is allocated range(len - i) slots.
RowLen(len, i) == len - i

\* previouslyCalulatedMutualForces[i][j] = force, on the entries written so far.
Store(cache, i, j, force) ==
    [p \in (DOMAIN cache) \cup {<<i, j>>} |-> IF p = <<i, j>> THEN force ELSE cache[p]]

\* for j < i: sumOfForces += -1 * previouslyCalulatedMutualForces[j][i]
RECURSIVE ReciprocalLoop(_, _, _, _)
ReciprocalLoop(len, i, j, acc) ==
    IF j >= i \/ acc.raised # NoError THEN acc
    ELSE IF i >= RowLen(len, j) THEN [acc EXCEPT !.raised = "IndexError"]
    ELSE IF <<j, i>> \notin DOMAIN acc.cache THEN [acc EXCEPT !.raised = "TypeError"]
    ELSE ReciprocalLoop(len, i, j + 1,
            [acc EXCEPT !.sumOfForces = VAdd(@, VScale(FromInt(-1), acc.cache[<<j, i>>]))])

\* for j > i: force = calculateMutualForce(...); cache[i][j] = force; sumOfForces += force
RECURSIVE AttractorLoop(_, _, _, _, _)
AttractorLoop(simObjectList, G, i, j, acc) ==
    IF j >= Len(simObjectList) \/ acc.raised # NoError THEN acc
    ELSE LET force == calculateMutualForce(simObjectList[i + 1], simObjectList[j + 1], G)
         IN  IF j >= RowLen(Len(simObjectList), i)
             THEN [acc EXCEPT !.raised = "IndexError", !.calls = @ + 1]
             ELSE AttractorLoop(simObjectList, G, i, j + 1,
                    [acc EXCEPT !.cache = Store(@, i, j, force),
                                !.sumOfForces = VAdd(@, force),
                                !.calls = @ + 1])

\* The new sample with the append to _speeds left out.
Integrate_noSpeed(principleObj, sumOfForces, dt) ==
    LET nextPosition == VAdd(VAdd(Last(principleObj._positions),
                                  VScale(dt, Last(principleObj._velocities))),
                             VScale(FInv(FromInt(2)), VScale(FMul(dt, dt), sumOfForces)))
        nextVelocity == VAdd(Last(principleObj._velocities),
                             VScale(FInv(principleObj.mass), VScale(dt, sumOfForces)))
    IN  [principleObj EXCEPT !._positions  = Append(@, nextPosition),
                             !._velocities = Append(@, nextVelocity)]

\* Lines 117-122: the new sample of one non-static body.
Integrate(principleObj, sumOfForces, dt) ==
    LET nextPosition == VAdd(VAdd(Last(principleObj._positions),
                                  VScale(dt, Last(principleObj._velocities))),
                             VScale(FInv(FromInt(2)), VScale(FMul(dt, dt), sumOfForces)))
        nextVelocity == VAdd(Last(principleObj._velocities),
                             VScale(FInv(principleObj.mass), VScale(dt, sumOfForces)))
    IN  [principleObj EXCEPT !._positions  = Append(@, nextPosition),
                             !._velocities = Append(@, nextVelocity),
                             !._speeds     = Append(@, Norm(nextVelocity))]

\* The pass with the test for static bodies left out.
Skips_never(principleObj) == FALSE

\* if principleObj.isStatic: continue
Skips(principleObj) == principleObj.isStatic

\* The body of the loop over principleObj, from body i (0-based) on.
RECURSIVE PrincipleLoop(_, _, _, _)
PrincipleLoop(G, dt, i, st) ==
    IF i >= Len(st.list) \/ st.raised # NoError THEN st
    ELSE LET principleObj == st.list[i + 1]
             acc0 == [raised |-> NoError, cache |-> st.cache,
                      sumOfForces |-> Vec(FromInt(0), FromInt(0)), calls |-> st.calls]
             acc1 == ReciprocalLoop(Len(st.list), i, 0, acc0)
             acc2 == AttractorLoop(st.list, G, i, i + 1, acc1)
             st2  == [st EXCEPT !.cache = acc2.cache, !.calls = acc2.calls,
                                !.raised = acc2.raised]
         IN  IF acc2.raised # NoError THEN st2
             ELSE IF Skips(principleObj) THEN PrincipleLoop(G, dt, i + 1, st2)
             ELSE IF Last(principleObj._velocities).type # "Vector"
                  \* a list times a Python float
                  THEN [st2 EXCEPT !.raised = "TypeError"]
             ELSE PrincipleLoop(G, dt, i + 1,
                    [st2 EXCEPT !.list[i + 1] = Integrate(principleObj, acc2.sumOfForces, dt)])

\* Kinematics.updateSimObjectList_Kinematics: the registry as the call
\* leaves it, the exception it ends with, and the force evaluations made.
Kinematics_pass(simObjectList, G, dt) ==
    PrincipleLoop(G, dt, 0,
        [raised |-> NoError, list |-> simObjectList, cache |-> <<>>, calls |-> 0])

\* Kinematics.updateSimObjectList_AnimationQuantities on a registry with the
\* attributes quantities: neither SimObjectList nor list has positions(), so
\* the first statement ends the call and nothing is assigned.
AnimationQuantities(data, quantities) ==
    [raised |-> "AttributeError", quantities |-> quantities]

(* ------------------------------ simulator ----------------------------- *)

\* A Python value handed to a parameter: its type and, for a number, its value
\* (True is 1, False is 0).
PyFloat(n, d) == [type |-> "float", v |-> Float(n, d)]

PyInt(n) == [type |-> "int", v |-> FromInt(n)]

PyBool(b) == [type |-> "bool", v |-> FromInt(IF b THEN 1 ELSE 0)]

PyStr == [type |-> "str", v |-> FromInt(0)]

\* An attribute that is annotated in the class body and never assigned.
Unset == [type |-> "unset", v |-> FromInt(0)]

Fields == {"_dt", "_G", "_display_animation", "_save_gif", "_interval",
           "_max_iterations", "_max_real_time", "_max_sim_time"}

\* isinstance(givenValue, expectedType); bool is a subclass of int.
IsInstance(givenValue, expectedType) ==
    CASE expectedType = "float" -> givenValue.type = "float"
      [] expectedType = "int"   -> givenValue.type \in {"int", "bool"}
      [] expectedType = "bool"  -> givenValue.type = "bool"
      [] expectedType = "Union[float,int]" -> givenValue.type \in {"float", "int", "bool"}

\* The interval up to which set_param asks before assigning.
IntervalPrompt == 80

\* Simulation.isRunning
isRunning == simulation_running

\* Simulation.set_param on configuration cfg: the configuration it leaves and
\* the exception it ends with. answer is what the user types at the prompt.
SetParam(cfg, running, name, value, answer) ==
    LET keep    == [config |-> cfg, raised |-> NoError]
        fail(e) == [config |-> cfg, raised |-> e]
        set(f)  == [config |-> [cfg EXCEPT ![f] = value], raised |-> NoError]
        Zero    == FromInt(0)
    IN  IF running THEN keep
        ELSE CASE name = "dt" ->
                    IF ~IsInstance(value, "float") THEN fail("TypeError")
                    ELSE IF FLessEq(value.v, Zero) THEN keep
                    ELSE set("_dt")
               [] name = "G" ->
                    IF ~IsInstance(value, "Union[float,int]") THEN fail("TypeError")
                    ELSE IF FLessEq(value.v, Zero) THEN fail("ValueError")
                    ELSE set("_G")
               [] name = "display_animation" ->
                    IF ~IsInstance(value, "bool") THEN fail("TypeError")
                    ELSE set("_display_animation")
               [] name = "save_gif" ->
                    IF ~IsInstance(value, "bool") THEN fail("TypeError")
                    ELSE set("_save_gif")
               [] name = "set_interval" ->
                    IF ~IsInstance(value, "int") THEN fail("TypeError")
                    ELSE IF FLess(value.v, Zero) THEN keep
                    ELSE IF FLessEq(value.v, FromInt(IntervalPrompt))
                         THEN (IF answer = "C" THEN set("_interval") ELSE keep)
                    ELSE keep
               [] name = "max_iterations" ->
                    IF ~IsInstance(value, "int") THEN fail("TypeError")
                    ELSE IF FLess(value.v, Zero) THEN keep
                    ELSE set("_max_iterations")
               [] name = "max_real_time" ->
                    IF ~IsInstance(value, "Union[float,int]") THEN fail("TypeError")
                    ELSE IF FLess(value.v, Zero) THEN keep
                    ELSE set("_max_real_time")
               [] name = "max_sim_time" ->
                    IF ~IsInstance(value, "Union[float,int]") THEN fail("TypeError")
                    ELSE IF FLess(value.v, Zero) THEN keep
                    ELSE set("_max_sim_time")
               [] OTHER -> keep

\* for (k,v) in parameters: self.set_param(k,v)
RECURSIVE SetParamsLoop(_, _, _, _)
SetParamsLoop(cfg, running, parameters, answer) ==
    IF parameters = <<>> THEN [config |-> cfg, raised |-> NoError]
    ELSE LET r == SetParam(cfg, running, parameters[1][1], parameters[1][2], answer)
         IN  IF r.raised # NoError THEN r
             ELSE SetParamsLoop(r.config, running, Tail(parameters), answer)

\* Simulation.set_params_by_list
SetParamsByList(cfg, running, parameters, answer) ==
    IF running THEN [config |-> cfg, raised |-> NoError]
    ELSE SetParamsLoop(cfg, running, parameters, answer)

\* Simulation.__init__: locals() in the order of the signature.
Construct(a) ==
    SetParamsByList([f \in Fields |-> Unset], FALSE,
        << <<"dt", a.dt>>, <<"G", a.G>>, <<"display_animation", a.display_animation>>,
           <<"save_gif", a.save_gif>>, <<"interval", a.interval>>,
           <<"max_iterations", a.max_iterations>>, <<"max_real_time", a.max_real_time>>,
           <<"max_sim_time", a.max_sim_time>> >>, "X")

\* Simulation.getData() of the instance numbered self, on the list data of the
\* class: no instance has a __simulation_data of its own.
GetData(data, self) == data

\* f"object{n}"
ObjectName(n) ==
    <<"object1", "object2", "object3", "object4", "object5", "object6">>[n]

Names(data) == {data[k].name : k \in DOMAIN data}

\* addObject with the search for the name among the stored bodies left out.
AddObject_unchecked(data, position, velocity, name, isStatic, mass) ==
    LET given == IF name \in {None, ""} THEN ObjectName(Len(data) + 1) ELSE name
        pos   == IF position.type = "Vector" THEN position ELSE Vector(position)
        vel   == IF position.type = "Vector" THEN velocity ELSE Vector(velocity)
        obj   == SimObject(pos, vel, given, isStatic, mass)
    IN  [simulation_data |-> Append(data, obj), raised |-> NoError,
         obj |-> obj, added |-> TRUE]

\* Simulation.addObject on registry data: the registry it leaves, the
\* exception it ends with, and the samples handed to SimObjectData.
AddObject(data, position, velocity, name, isStatic, mass) ==
    LET given == IF name \in {None, ""} THEN ObjectName(Len(data) + 1) ELSE name
        pos   == IF position.type = "Vector" THEN position ELSE Vector(position)
        vel   == IF position.type = "Vector" THEN velocity ELSE Vector(velocity)
        obj   == SimObject(pos, vel, given, isStatic, mass)
    IN  IF Len(data) > 0 /\ given \in Names(data)
        THEN [simulation_data |-> data, raised |-> "Exception", obj |-> obj, added |-> FALSE]
        ELSE [simulation_data |-> Append(data, obj), raised |-> NoError,
              obj |-> obj, added |-> TRUE]

\* run() with the test for missing stopping methods and its prompt left out.
Run_unprompted(cfg, data, answer) ==
    LET Zero        == FromInt(0)
        returns     == [raised |-> NoError, started |-> FALSE]
        fail(e)     == [raised |-> e, started |-> FALSE]
        unset(f)    == cfg[f] = Unset
    IN  IF unset("_display_animation") THEN fail("AttributeError")
        ELSE IF cfg["_display_animation"].v = Zero THEN returns  \* __executeSimulation_NoDisplay
        ELSE IF unset("_max_iterations") THEN fail("AttributeError")
        ELSE IF cfg["_max_iterations"].v = Zero /\ unset("_max_real_time") THEN fail("AttributeError")
        ELSE IF cfg["_max_iterations"].v = Zero /\ cfg["_max_real_time"].v = Zero
                /\ unset("_max_sim_time") THEN fail("AttributeError")
        ELSE IF unset("_save_gif") THEN fail("AttributeError")
        ELSE IF Len(data) > 0 THEN fail("AttributeError")        \* simObject.position
        ELSE IF unset("_interval") THEN fail("AttributeError")
        ELSE [raised |-> NoError, started |-> TRUE]

\* Simulation.run up to plt.show(): whether the animation is started and the
\* exception run() ends with otherwise. answer is what the user types at the
\* prompt.
Run(cfg, data, answer) ==
    LET Zero        == FromInt(0)
        returns     == [raised |-> NoError, started |-> FALSE]
        fail(e)     == [raised |-> e, started |-> FALSE]
        unset(f)    == cfg[f] = Unset
        noStopping  == cfg["_max_iterations"].v = Zero /\ cfg["_max_real_time"].v = Zero
                       /\ cfg["_max_sim_time"].v = Zero
    IN  IF unset("_display_animation") THEN fail("AttributeError")
        ELSE IF cfg["_display_animation"].v = Zero THEN returns  \* __executeSimulation_NoDisplay
        ELSE IF unset("_max_iterations") THEN fail("AttributeError")
        ELSE IF cfg["_max_iterations"].v = Zero /\ unset("_max_real_time") THEN fail("AttributeError")
        ELSE IF cfg["_max_iterations"].v = Zero /\ cfg["_max_real_time"].v = Zero
                /\ unset("_max_sim_time") THEN fail("AttributeError")
        ELSE IF noStopping /\ answer # "ok" THEN returns
        ELSE IF unset("_save_gif") THEN fail("AttributeError")
        ELSE IF Len(data) > 0 THEN fail("AttributeError")        \* simObject.position
        ELSE IF unset("_interval") THEN fail("AttributeError")
        ELSE [raised |-> NoError, started |-> TRUE]

(* --------------------------- orbitSimulation -------------------------- *)

\* G = 1 at the top of orbitSimulation.py
orbitSimulation_G == FromInt(1)

\* orbitSimulation.SimObject.__init__
orbitSimulation_SimObject(name, isStatic, mass, position, velocity) ==
    [position |-> Vector(position),
     velocity |-> IF ~isStatic THEN Vector(velocity) ELSE Vec(FromInt(0), FromInt(0)),
     name     |-> name,
     isStatic |-> isStatic,
     mass     |-> mass]

\* orbitSimulation.Simulation.addObject on the list record = self.data[0]
orbitSimulation_AddObject(record, simObject) ==
    LET named == IF simObject.name = "object"
                 THEN [simObject EXCEPT !.name = ObjectName(Len(record) + 1)]
                 ELSE simObject
    IN  IF \E k \in DOMAIN record : record[k].name = named.name
        THEN [raised |-> "Exception", record |-> record]
        ELSE [raised |-> NoError, record |-> Append(record, named)]

\* orbitSimulation.Simulation.__mutualForce
mutualForce(principleObject, attractorObject) ==
    LET r_vec     == VSub(principleObject.position, attractorObject.position)
        r_squared == Dot(r_vec, r_vec)
        force     == VScale(FNeg(FDiv(FMul(FMul(orbitSimulation_G, principleObject.mass),
                                           attractorObject.mass),
                                      r_squared)),
                            r_vec)
    IN  force

\* The loop over attractingObj in record[:i] + record[i + 1:], from the
\* attractor js[1] on. mutualForceRecord is emptied for every principleObj
\* and its keys never match, so every force is evaluated afresh on the
\* positions the bodies have at that moment.
RECURSIVE AttractingLoop(_, _, _, _)
AttractingLoop(record, i, js, acc) ==
    IF js = <<>> THEN acc
    ELSE LET force == mutualForce(record[i], record[js[1]])
         IN  AttractingLoop(record, i, Tail(js),
                [force_vec   |-> Store(acc.force_vec, i, js[1], force),
                 sumOfForces |-> VAdd(acc.sumOfForces, force)])

\* The indices of record[:i] + record[i + 1:] (1-based, i excluded).
RECURSIVE Attractors(_, _, _)
Attractors(len, i, j) ==
    IF j > len THEN <<>>
    ELSE IF j = i THEN Attractors(len, i, j + 1)
    ELSE <<j>> \o Attractors(len, i, j + 1)

\* The loop of __updateSimObjectKinematics over principleObj, from body i on:
\* position and velocity of a non-static body are updated in place before the
\* next body is looked at.
RECURSIVE UpdateLoop(_, _, _, _)
UpdateLoop(record, dt, i, forces) ==
    IF i > Len(record) THEN [force_vec |-> forces, record |-> record]
    ELSE LET principleObj == record[i]
             acc == AttractingLoop(record, i, Attractors(Len(record), i, 1),
                       [force_vec |-> forces, sumOfForces |-> Vec(FromInt(0), FromInt(0))])
             moved ==
                 [principleObj EXCEPT
                    !.position = VAdd(@, VAdd(VScale(dt, principleObj.velocity),
                                              VScale(FInv(FromInt(2)),
                                                     VScale(FMul(dt, dt), acc.sumOfForces)))),
                    !.velocity = VAdd(@, VScale(FInv(principleObj.mass),
                                                VScale(dt, acc.sumOfForces)))]
         IN  UpdateLoop([record EXCEPT ![i] = IF principleObj.isStatic THEN principleObj
                                               ELSE moved],
                        dt, i + 1, acc.force_vec)

\* orbitSimulation.Simulation.__updateSimObjectKinematics
updateSimObjectKinematics_of(record, dt) == UpdateLoop(record, dt, 1, <<>>)

(* ------------------------------ the state ----------------------------- *)

\* Simulation(G = 1, interval=100, max_real_time=0, max_sim_time=0,
\*            max_iterations=100, save_gif=True), the other arguments defaulted.
TestArgs ==
    [G |-> PyInt(1), dt |-> PyFloat(1, 100), display_animation |-> PyBool(TRUE),
     save_gif |-> PyBool(TRUE), interval |-> PyInt(100), max_iterations |-> PyInt(100),
     max_real_time |-> PyInt(0), max_sim_time |-> PyInt(0)]

\* A construction with no stopping condition.
UnboundedArgs ==
    [TestArgs EXCEPT !.max_iterations = PyInt(0), !.save_gif = PyBool(FALSE)]

ConstructorArgs == {UnboundedArgs, TestArgs}

NoCall == [args |-> <<>>, op |-> "Simulation"]

\* The attributes updateSimObjectList_AnimationQuantities assigns on the registry.
AnimationFields == {"_center", "_max_center_deviation", "_x_limit", "_y_limit"}

InitWith(a) ==
    /\ Construct(a).raised = NoError
    /\ config = Construct(a).config
    /\ simulation_running = FALSE
    /\ simulation_data = <<>>
    /\ SimObjectData = [position |-> <<>>, velocity |-> <<>>, speed |-> <<>>]
    /\ pc = "configured"
    /\ call = NoCall
    /\ raised = NoError
    /\ returned = None
    /\ mutualForceCalls = 0
    /\ iteration = 0
    /\ animationQuantities = [f \in AnimationFields |-> Unset]
    /\ instances = 1
    /\ orbitSimulation_data = << <<>> >>
    /\ force_vec = <<>>

Init == \E a \in ConstructorArgs : InitWith(a)

(* ------------------------------ actions ------------------------------- *)

set_param(name, value, answer) ==
    /\ pc # "animating"
    /\ LET r == SetParam(config, isRunning, name, value, answer)
       IN  config' = r.config /\ raised' = r.raised
    /\ call' = [args |-> [name |-> name, value |-> value], op |-> "set_param"]
    /\ returned' = None /\ mutualForceCalls' = 0
    /\ UNCHANGED <<instances, orbitSimulation_data, force_vec>>
    /\ UNCHANGED <<simulation_running, simulation_data, SimObjectData, pc, iteration,
                   animationQuantities>>

set_params_by_list(parameters, answer) ==
    /\ pc # "animating"
    /\ LET r == SetParamsByList(config, isRunning, parameters, answer)
       IN  config' = r.config /\ raised' = r.raised
    /\ call' = [args |-> parameters, op |-> "set_params_by_list"]
    /\ returned' = None /\ mutualForceCalls' = 0
    /\ UNCHANGED <<instances, orbitSimulation_data, force_vec>>
    /\ UNCHANGED <<simulation_running, simulation_data, SimObjectData, pc, iteration,
                   animationQuantities>>

\* self.addObject(...) on the instance numbered self: self.__simulation_data
\* is never assigned, so it is the list of the class for every instance.
addObject_on(self, position, velocity, name, isStatic, mass) ==
    /\ self \in 1..instances
    /\ pc # "animating"
    /\ Len(simulation_data) < MaxBodies
    /\ LET r == AddObject(simulation_data, position, velocity, name, isStatic, mass)
       IN  /\ simulation_data' = r.simulation_data
           /\ raised' = r.raised
           /\ SimObjectData' =
                IF r.added
                THEN SimObjectData_init(SimObjectData, Last(r.obj._positions),
                                        Last(r.obj._velocities))
                ELSE SimObjectData
    /\ call' = [args |-> [position |-> position, velocity |-> velocity, name |-> name,
                          isStatic |-> isStatic, mass |-> mass, self |-> self],
                op |-> "addObject"]
    /\ returned' = None /\ mutualForceCalls' = 0
    /\ UNCHANGED <<instances, orbitSimulation_data, force_vec>>
    /\ UNCHANGED <<config, simulation_running, pc, iteration, animationQuantities>>

\* addObject on the first instance.
addObject(position, velocity, name, isStatic, mass) ==
    addObject_on(1, position, velocity, name, isStatic, mass)

\* Simulation(**a) once more: a further instance, with fields of its own;
\* the attributes of the class are left as they are, and config stays that
\* of the first instance.
Simulation(a) ==
    /\ pc # "animating"
    /\ instances < MaxInstances
    /\ raised' = Construct(a).raised
    /\ instances' = IF Construct(a).raised = NoError THEN instances + 1 ELSE instances
    /\ call' = [args |-> a, op |-> "Simulation"]
    /\ returned' = None /\ mutualForceCalls' = 0
    /\ UNCHANGED <<config, simulation_running, simulation_data, SimObjectData, pc,
                   iteration, animationQuantities, orbitSimulation_data, force_vec>>

run(answer) ==
    /\ pc # "animating"
    /\ LET r == Run(config, simulation_data, answer)
       IN  /\ pc' = (IF r.started THEN "animating" ELSE pc)
           /\ raised' = r.raised
           /\ iteration' = (IF r.started THEN 0 ELSE iteration)
    /\ call' = [args |-> [answer |-> answer], op |-> "run"]
    /\ returned' = None /\ mutualForceCalls' = 0
    /\ UNCHANGED <<instances, orbitSimulation_data, force_vec>>
    /\ UNCHANGED <<config, simulation_running, simulation_data, SimObjectData,
                   animationQuantities>>

\* The timer callback of FuncAnimation, called with the frame number i:
\* Kinematics has no updateSimObjectList, and nothing in it reads
\* _max_iterations or calls __check_ConcludeSimulation.
animate ==
    /\ pc = "animating"
    /\ iteration < MaxFrames
    /\ raised' = "AttributeError"
    /\ call' = [args |-> [i |-> iteration], op |-> "animate"]
    /\ iteration' = iteration + 1
    /\ returned' = None /\ mutualForceCalls' = 0
    /\ UNCHANGED <<instances, orbitSimulation_data, force_vec>>
    /\ UNCHANGED <<config, simulation_running, simulation_data, SimObjectData, pc,
                   animationQuantities>>

\* The window is closed: plt.show() returns and run() with it; the frame
\* counter of the animation is gone.
closeWindow ==
    /\ pc = "animating"
    /\ pc' = "stopped"
    /\ raised' = NoError
    /\ call' = [args |-> <<>>, op |-> "run"]
    /\ iteration' = 0
    /\ returned' = None /\ mutualForceCalls' = 0
    /\ UNCHANGED <<instances, orbitSimulation_data, force_vec>>
    /\ UNCHANGED <<config, simulation_running, simulation_data, SimObjectData,
                   animationQuantities>>

Coordinates(data) ==
    UNION {{Last(data[k]._positions).x, Last(data[k]._positions).y,
            Last(data[k]._velocities).x, Last(data[k]._velocities).y} : k \in DOMAIN data}

Small(data) ==
    \A c \in Coordinates(data) : Abs(c[1]) <= MaxMagnitude /\ c[2] <= MaxMagnitude

updateSimObjectList_Kinematics(G, dt) ==
    /\ pc # "animating"
    /\ \A k \in DOMAIN simulation_data : Len(simulation_data[k]._positions) <= MaxSteps
    /\ Small(simulation_data)
    /\ LET r == Kinematics_pass(simulation_data, G, dt)
       IN  simulation_data' = r.list /\ raised' = r.raised /\ mutualForceCalls' = r.calls
    /\ call' = [args |-> [G |-> G, dt |-> dt], op |-> "updateSimObjectList_Kinematics"]
    /\ returned' = None
    /\ UNCHANGED <<instances, orbitSimulation_data, force_vec>>
    /\ UNCHANGED <<config, simulation_running, SimObjectData, pc, iteration,
                   animationQuantities>>

\* simulation_data[k].get_latest(*args, amount=amount)
get_latest(k, args, amount) ==
    /\ k \in DOMAIN simulation_data
    /\ LET r == GetLatest(SimObjectData, args, amount)
       IN  returned' = r.returned /\ raised' = r.raised
    /\ call' = [args |-> [k |-> k, amount |-> amount, kinds |-> args], op |-> "get_latest"]
    /\ mutualForceCalls' = 0
    /\ UNCHANGED <<instances, orbitSimulation_data, force_vec>>
    /\ UNCHANGED <<config, simulation_running, simulation_data, SimObjectData, pc,
                   iteration, animationQuantities>>

updateSimObjectList_AnimationQuantities ==
    /\ LET r == AnimationQuantities(simulation_data, animationQuantities)
       IN  animationQuantities' = r.quantities /\ raised' = r.raised
    /\ call' = [args |-> <<>>, op |-> "updateSimObjectList_AnimationQuantities"]
    /\ returned' = None /\ mutualForceCalls' = 0
    /\ UNCHANGED <<instances, orbitSimulation_data, force_vec>>
    /\ UNCHANGED <<config, simulation_running, simulation_data, SimObjectData, pc,
                   iteration>>

\* orbitSimulation: sim.addObject(SimObject(name, isStatic, mass, position,
\* velocity)); every entry of sim.data is the one list the body is appended to.
orbitSimulation_addObject(name, isStatic, mass, position, velocity) ==
    /\ Len(orbitSimulation_data[1]) < MaxBodies
    /\ LET r == orbitSimulation_AddObject(orbitSimulation_data[1],
                    orbitSimulation_SimObject(name, isStatic, mass, position, velocity))
       IN  /\ orbitSimulation_data' = [k \in DOMAIN orbitSimulation_data |-> r.record]
           /\ raised' = r.raised
    /\ call' = [args |-> [position |-> position, velocity |-> velocity, name |-> name,
                          isStatic |-> isStatic, mass |-> mass],
                op |-> "orbitSimulation.addObject"]
    /\ returned' = None /\ mutualForceCalls' = 0
    /\ UNCHANGED <<config, simulation_running, simulation_data, SimObjectData, pc,
                   iteration, animationQuantities, instances, force_vec>>

LegacyCoordinates(record) ==
    UNION {{record[k].position.x, record[k].position.y,
            record[k].velocity.x, record[k].velocity.y} : k \in DOMAIN record}

\* orbitSimulation: one frame of animate on a simulation with time step dt,
\* taken from whole coordinates within MaxMagnitude (the sums of a frame stay
\* within TLC's integers from there),
\* simInstance.data.append(self.__updateSimObjectKinematics(simInstance.data[-1])):
\* the list returned is the list passed, updated in place.
updateSimObjectKinematics(dt) ==
    /\ Len(orbitSimulation_data) <= MaxSteps
    /\ \A c \in LegacyCoordinates(Last(orbitSimulation_data)) :
          Abs(c[1]) <= MaxMagnitude /\ c[2] = 1
    /\ LET r == updateSimObjectKinematics_of(Last(orbitSimulation_data), dt)
       IN  /\ orbitSimulation_data' = [k \in 1..(Len(orbitSimulation_data) + 1) |-> r.record]
           /\ force_vec' = r.force_vec
    /\ raised' = NoError
    /\ call' = [args |-> [dt |-> dt], op |-> "__updateSimObjectKinematics"]
    /\ returned' = None /\ mutualForceCalls' = 0
    /\ UNCHANGED <<config, simulation_running, simulation_data, SimObjectData, pc,
                   iteration, animationQuantities, instances>>

(* --------------------------- specifications --------------------------- *)

\* The kinematics engine on registries of varied bodies.
KinPlacements ==
    {<<PyList(FromInt(x), FromInt(y)), PyList(FromInt(0), FromInt(1))>> :
        <<x, y>> \in {<<0, 0>>, <<0, 2>>, <<1, 0>>}}
    \cup {<<Vec(FromInt(1), FromInt(0)), PyList(FromInt(0), FromInt(1))>>}

KinMasses == {FromInt(1), FromInt(2)}

KinG == {FromInt(1), FromInt(2)}

KinDt == {FromInt(1), FromInt(2)}

NextKinematics ==
    \/ \E pv \in KinPlacements, isStatic \in BOOLEAN, mass \in KinMasses :
          addObject(pv[1], pv[2], None, isStatic, mass)
    \/ \E G \in KinG, dt \in KinDt : updateSimObjectList_Kinematics(G, dt)

SpecKinematics == InitWith(TestArgs) /\ [][NextKinematics]_vars

\* The registry under named and unnamed additions.
RegNames == {"a", None, "object2"}

RegMasses == {FromInt(-1), FromInt(0), FromInt(1)}

NextRegistry ==
    \E name \in RegNames, isStatic \in BOOLEAN, mass \in RegMasses :
        addObject(PyList(FromInt(0), FromInt(0)), PyList(FromInt(0), FromInt(1)),
                  name, isStatic, mass)

SpecRegistry == Init /\ [][NextRegistry]_vars

\* The configuration under its mutators, run() and additions to the registry.
ParamValues(name) ==
    CASE name = "dt" -> {PyFloat(-1, 1), PyFloat(0, 1), PyFloat(1, 2), PyInt(1)}
      [] name = "G" -> {PyFloat(-1, 1), PyFloat(2, 1), PyInt(0), PyStr}
      [] name \in {"display_animation", "save_gif"} -> {PyInt(1), PyBool(FALSE), PyBool(TRUE)}
      [] name \in {"interval", "set_interval"} -> {PyFloat(1, 1), PyInt(-1), PyInt(40), PyInt(100)}
      [] name = "max_iterations" -> {PyFloat(1, 1), PyInt(-1), PyInt(0), PyInt(3)}
      [] name \in {"max_real_time", "max_sim_time"} -> {PyFloat(-1, 1), PyFloat(5, 1), PyInt(0)}

ParamNames ==
    {"G", "dt", "display_animation", "save_gif", "interval", "max_iterations",
     "max_real_time", "max_sim_time", "set_interval"}

ParamLists ==
    {<< <<"max_iterations", PyInt(-1)>>, <<"G", PyFloat(2, 1)>> >>,
     << <<"dt", PyFloat(1, 2)>>, <<"G", PyFloat(-1, 1)>>, <<"max_iterations", PyInt(3)>> >>}

NextController ==
    \/ \E name \in ParamNames : \E value \in ParamValues(name), answer \in {"C", "X"} :
          set_param(name, value, answer)
    \/ \E parameters \in ParamLists : set_params_by_list(parameters, "X")
    \/ addObject(PyList(FromInt(0), FromInt(0)), PyList(FromInt(0), FromInt(1)),
                 None, FALSE, FromInt(1))
    \/ \E answer \in {"ok", "cancel"} : run(answer)
    \/ animate
    \/ closeWindow

SpecController == Init /\ [][NextController]_vars

\* The stored data of a registry under additions and its readers.
DataPositions == {PyList(FromInt(0), FromInt(0)), PyList(FromInt(2), FromInt(0))}

LatestKinds ==
    {<<>>, <<"position">>, <<"mass">>, <<"simulation_time">>, <<"real_time">>,
     <<"position", "mass">>, <<"velocity", "speed">>, <<"speed", "Position">>}

LatestAmounts == {-1, 0, 1, 2, 5}

NextData ==
    \/ \E position \in DataPositions, isStatic \in BOOLEAN :
          addObject(position, PyList(FromInt(0), FromInt(1)), None, isStatic, FromInt(1))
    \/ \E k \in 1..MaxBodies, args \in LatestKinds, amount \in LatestAmounts :
          get_latest(k, args, amount)
    \/ updateSimObjectList_AnimationQuantities

SpecData == InitWith(TestArgs) /\ [][NextData]_vars

\* Several Simulation objects and additions to each.
NextInstances ==
    \/ \E a \in ConstructorArgs : Simulation(a)
    \/ \E self \in 1..MaxInstances, name \in RegNames, isStatic \in BOOLEAN :
          addObject_on(self, PyList(FromInt(0), FromInt(0)), PyList(FromInt(0), FromInt(1)),
                       name, isStatic, FromInt(1))

SpecInstances == Init /\ [][NextInstances]_vars

\* The legacy module orbitSimulation: bodies added to one simulation on the x
\* axis, moving along it, and frames.
LegacyPositions ==
    {PyList(FromInt(0), FromInt(0)), PyList(FromInt(1), FromInt(0)),
     PyList(FromInt(2), FromInt(0))}

NextLegacy ==
    \/ \E position \in LegacyPositions, isStatic \in BOOLEAN, mass \in KinMasses :
          orbitSimulation_addObject("object", isStatic, mass, position,
                                    PyList(FromInt(1), FromInt(0)))
    \/ \E dt \in KinDt : updateSimObjectKinematics(dt)

SpecLegacy == InitWith(TestArgs) /\ [][NextLegacy]_vars

Next ==
    NextController \/ NextRegistry \/ NextKinematics \/ NextData \/ NextInstances
      \/ NextLegacy

Spec == Init /\ [][Next]_vars

(* ------------------------------- claims ------------------------------- *)

Bodies == DOMAIN simulation_data

Position(k) == Last(simulation_data[k]._positions)

Velocity(k) == Last(simulation_data[k]._velocities)

\* A position within the magnitudes the passes are taken on.
InRange(v) ==
    \A c \in {v.x, v.y} : Abs(c[1]) <= MaxMagnitude /\ c[2] <= MaxMagnitude

\* Two bodies of the registry at distinct points of the plane.
Apart(i, j) ==
    /\ i # j
    /\ VecIsFinite(Position(i)) /\ VecIsFinite(Position(j))
    /\ InRange(Position(i)) /\ InRange(Position(j))
    /\ Position(i) # Position(j)

\* Two bodies of the registry at the same point of the plane.
Coincide(i, j) ==
    /\ i # j
    /\ VecIsFinite(Position(i))
    /\ Position(i) = Position(j)

IsPass(c) == c.op = "updateSimObjectList_Kinematics"

\* The sum over all j # k of calculateMutualForce(body k, body j, G).
RECURSIVE SumOver(_, _, _, _)
SumOver(data, k, G, js) ==
    IF js = {} THEN Vec(FromInt(0), FromInt(0))
    ELSE LET j == CHOOSE x \in js : TRUE
         IN  VAdd(calculateMutualForce(data[k], data[j], G), SumOver(data, k, G, js \ {j}))

NetForce(data, k, G) == SumOver(data, k, G, (DOMAIN data) \ {k})

C2_IntegratesWithMass ==
    [][(IsPass(call') /\ raised' = NoError) =>
          \A k \in Bodies :
              ~simulation_data[k].isStatic =>
                  LET p  == Position(k)
                      v  == Velocity(k)
                      m  == simulation_data[k].mass
                      dt == call'.args.dt
                      F  == NetForce(simulation_data, k, call'.args.G)
                  IN  /\ Last(simulation_data'[k]._positions)
                           = VAdd(VAdd(p, VScale(dt, v)),
                                  VScale(FDiv(FMul(dt, dt), FMul(FromInt(2), m)), F))
                      /\ Last(simulation_data'[k]._velocities)
                           = VAdd(v, VScale(FDiv(dt, m), F))]_vars

C4_InverseSquare ==
    \A i \in Bodies, j \in Bodies, G \in KinG :
        Apart(i, j) =>
            LET a     == simulation_data[i]
                b     == simulation_data[j]
                force == calculateMutualForce(a, b, G)
                toB   == VSub(Position(j), Position(i))
                rr    == Dot(toB, toB)
                k     == FMul(FMul(G, a.mass), b.mass)
            IN  /\ FSub(FMul(force.x, toB.y), FMul(force.y, toB.x)) = FromInt(0)
                /\ FLess(FromInt(0), Dot(force, toB))
                /\ Dot(force, force) = FDiv(FMul(k, k), FMul(rr, rr))

\* C5: addObject with the name of a body already in the registry fails and
\* leaves the registry unchanged; no two bodies of the registry ever have the
\* same name.
C5_NamesUnique ==
    /\ [](\A i \in Bodies, j \in Bodies : simulation_data[i].name = simulation_data[j].name => i = j)
    /\ [][(call'.op = "addObject" /\ call'.args.name \in Names(simulation_data)) =>
             (raised' = "Exception" /\ simulation_data' = simulation_data)]_vars

\* C5's case: an addObject that named a stored body has been refused.
C5_Witness ==
    /\ call.op = "addObject" /\ raised = "Exception"
    /\ call.args.name \in Names(simulation_data)
    /\ Len(simulation_data) >= 2

Invalid(name, value) ==
    \/ name = "dt" /\ IsInstance(value, "float") /\ FLessEq(value.v, FromInt(0))
    \/ name = "G" /\ IsInstance(value, "Union[float,int]") /\ FLessEq(value.v, FromInt(0))
    \/ name = "max_iterations" /\ IsInstance(value, "int") /\ FLess(value.v, FromInt(0))
    \/ name \in {"max_real_time", "max_sim_time"} /\ IsInstance(value, "Union[float,int]")
       /\ FLess(value.v, FromInt(0))

\* C8: set_param with an invalid dt, G, max_iterations, max_real_time or
\* max_sim_time ends with a raised error at that call, for each of the five
\* alike, and leaves every configuration field unchanged.
C8_InvalidRaises ==
    [][(call'.op = "set_param" /\ Invalid(call'.args.name, call'.args.value)) =>
          (raised' # NoError /\ config' = config)]_vars

\* C10: addObject after the controller has entered Running fails with a state
\* error and leaves the registry unchanged.
C10_NoAdditionAfterRun ==
    [][(call'.op = "addObject" /\ pc = "stopped") =>
          (raised' # NoError /\ simulation_data' = simulation_data)]_vars

\* The frames delivered in this run have reached a non-zero _max_iterations.
MaxIterationsReached ==
    /\ FLess(FromInt(0), config["_max_iterations"].v)
    /\ FLessEq(config["_max_iterations"].v, FromInt(iteration))

\* C11: in a run with max_iterations = N > 0, once the iteration count has
\* reached N the controller is no longer Running, and no further step is
\* performed.
C11_StopsAtMaxIterations ==
    /\ [](MaxIterationsReached => pc # "animating")
    /\ [][(MaxIterationsReached /\ pc = "animating") => iteration' = iteration]_vars

\* C12: isRunning() is false while the controller is Configured and true
\* while it is Running (between the start of the animation and its end), in
\* particular at every step.
C12_RunningFlag ==
    /\ pc = "configured" => ~isRunning
    /\ pc = "animating" => isRunning

\* C13: addObject with the name omitted, in any registry that earlier
\* addObject calls (named or unnamed) have built, adds exactly one body, named
\* object<N> with N the number of bodies before the call plus one.
C13_GeneratedName ==
    [][(call'.op = "addObject" /\ call'.args.name = None) =>
          /\ raised' = NoError
          /\ Len(simulation_data') = Len(simulation_data) + 1
          /\ SubSeq(simulation_data', 1, Len(simulation_data)) = simulation_data
          /\ Last(simulation_data').name = ObjectName(Len(simulation_data) + 1)]_vars

\* C14: every body of the registry has mass > 0 in every reachable state, and
\* addObject with mass <= 0 fails with an error and adds no body.
C14_PositiveMass ==
    /\ [](\A k \in Bodies : FLess(FromInt(0), simulation_data[k].mass))
    /\ [][(call'.op = "addObject" /\ FLessEq(call'.args.mass, FromInt(0))) =>
             (raised' # NoError /\ simulation_data' = simulation_data)]_vars

\* No stopping method is enabled: the three limits are all 0.
NoStoppingMethod(cfg) ==
    \A f \in {"_max_iterations", "_max_real_time", "_max_sim_time"} :
        cfg[f] # Unset /\ cfg[f].v = FromInt(0)

\* C15: with max_iterations, max_real_time and max_sim_time all 0, a run()
\* that is not answered 'ok' returns without starting the animation and
\* without a step, whichever value display_animation has; a step is performed
\* only inside an animation that run() has started.
C15_AcknowledgedRun ==
    [][/\ (pc # "animating" /\ call'.op = "run" /\ NoStoppingMethod(config)
            /\ call'.args.answer # "ok") =>
              (pc' = pc /\ iteration' = iteration)
       /\ call'.op = "animate" => pc = "animating"]_vars

\* C15's case: run() was not acknowledged and returned, on a controller that
\* is otherwise ready to animate (display on, interval set, empty registry).
C15_Witness ==
    /\ pc = "configured" /\ call.op = "run" /\ raised = NoError
    /\ call.args.answer = "cancel"
    /\ NoStoppingMethod(config)
    /\ config["_display_animation"] = PyBool(TRUE)
    /\ config["_interval"] # Unset
    /\ simulation_data = <<>>

LatestKindNames == {"position", "velocity", "speed", "simulation_time", "real_time"}

\* The history get_latest reads for a kind: the lists of SimObjectData, and
\* the time lists of the registry, to which nothing is ever appended.
KindHistory(kind) ==
    CASE kind = "position" -> SimObjectData.position
      [] kind = "velocity" -> SimObjectData.velocity
      [] kind = "speed"    -> SimObjectData.speed
      [] OTHER             -> <<>>

\* The k most recent entries of h in chronological order, all of them for
\* k = 0 or k >= Len(h).
Recent(h, k) ==
    IF k = 0 \/ k >= Len(h) THEN h ELSE SubSeq(h, Len(h) - k + 1, Len(h))

RECURSIVE RecentOfEach(_, _)
RecentOfEach(kinds, k) ==
    IF kinds = <<>> THEN <<>>
    ELSE Recent(KindHistory(Lower(kinds[1])), k) \o RecentOfEach(Tail(kinds), k)

\* C16: get_latest(kinds..., amount=k) with k >= 0 returns, for each kind in
\* the order requested (all five kinds when none is given), the k most recent
\* entries of that kind's history in chronological order, all of them when
\* k = 0 or k >= the length; a kind outside the five raises KeyError, and no
\* history is modified.
C16_LatestEntries ==
    [][(call'.op = "get_latest" /\ call'.args.amount >= 0) =>
          LET given == call'.args.kinds
              kinds == IF given = <<>>
                       THEN <<"position", "velocity", "speed", "simulation_time",
                              "real_time">>
                       ELSE given
          IN  /\ SimObjectData' = SimObjectData /\ simulation_data' = simulation_data
              /\ IF \A n \in DOMAIN kinds : Lower(kinds[n]) \in LatestKindNames
                 THEN raised' = NoError
                      /\ returned' = RecentOfEach(kinds, call'.args.amount)
                 ELSE raised' = "KeyError"]_vars

\* Every body of the registry carries its velocity as a Vector and the bodies
\* are at pairwise distinct points.
WellFormedRegistry ==
    /\ \A k \in Bodies : Velocity(k).type = "Vector"
    /\ \A i \in Bodies, j \in Bodies : i # j => Apart(i, j)

\* C17: for every registry of n bodies (in particular n >= 3) and every body
\* i, the pass integrates body i with the sum over all j # i of
\* calculateMutualForce(body i, body j, G) at the positions the bodies had when
\* the pass began: the cached and the fresh contributions together equal the
\* direct summation.
C17_NetForceIsDirectSum ==
    [][(IsPass(call') /\ WellFormedRegistry) =>
          /\ raised' = NoError
          /\ \A i \in Bodies :
                ~simulation_data[i].isStatic =>
                    simulation_data'[i] =
                        Integrate(simulation_data[i],
                                  NetForce(simulation_data, i, call'.args.G),
                                  call'.args.dt)]_vars

\* C18: one pass on a registry of n bodies completes having called
\* calculateMutualForce exactly n(n-1)/2 times, once per unordered pair, and
\* not at all for n = 0 or n = 1.
C18_PairwiseCalls ==
    [][(IsPass(call') /\ \A k \in Bodies : Velocity(k).type = "Vector") =>
          /\ raised' = NoError
          /\ mutualForceCalls' * 2 = Len(simulation_data) * (Len(simulation_data) - 1)]_vars

IsPrefix(s, u) == Len(s) <= Len(u) /\ SubSeq(u, 1, Len(s)) = s

RECURSIVE SumOfPositions(_, _)
SumOfPositions(data, n) ==
    IF n = 0 THEN zeroVec ELSE VAdd(SumOfPositions(data, n - 1), Last(data[n]._positions))

\* The component-wise mean of the latest positions of a non-empty registry.
Centroid(data) == VScale(FInv(FromInt(Len(data))), SumOfPositions(data, Len(data)))

\* The rational r >= 0 with r * r = q.
Root(q) ==
    CHOOSE r \in {<<n, d>> : n \in 0..q[1], d \in 1..q[2]} :
        r = Float(r[1], r[2]) /\ FMul(r, r) = q

\* The largest distance of a body from the centroid.
MaxDeviation(data) ==
    LET squares == {Norm(VSub(Last(data[k]._positions), Centroid(data))).sqrt :
                       k \in DOMAIN data}
    IN  Root(CHOOSE q \in squares : \A p \in squares : FLessEq(p, q))

\* The quantities the claim C20 names, for a non-empty registry.
CenteredQuantities(data) ==
    LET c == Centroid(data)
        m == MaxDeviation(data)
    IN  [_center               |-> c,
         _max_center_deviation |-> m,
         _x_limit              |-> <<FSub(c.x, m), FAdd(c.x, m)>>,
         _y_limit              |-> <<FSub(c.y, m), FAdd(c.y, m)>>]

\* C20: updateSimObjectList_AnimationQuantities sets the centroid to the
\* component-wise mean of the latest positions of all bodies, the maximum
\* deviation to the largest distance of a body from that centroid, and the x
\* and y bounds to centroid -/+ maximum deviation on the respective axis: for
\* bodies at (0,0) and (2,0) the centroid is (1,0) and the deviation 1.
C20_CenteredQuantities ==
    [][(call'.op = "updateSimObjectList_AnimationQuantities" /\ Len(simulation_data) > 0) =>
          /\ raised' = NoError
          /\ animationQuantities' = CenteredQuantities(simulation_data)]_vars

\* C21: the histories of the bodies are independent: constructing a SimObject
\* changes the position, velocity and speed history of no other SimObject,
\* and the history of the new body holds its own initial sample alone.
C21_IndependentHistories ==
    [][(call'.op = "addObject" /\ raised' = NoError) =>
          /\ \A k \in Bodies :
                ObjectSimulationData(SimObjectData', k) = ObjectSimulationData(SimObjectData, k)
          /\ LET new == Len(simulation_data')
             IN  /\ ObjectSimulationData(SimObjectData', new).position
                      = <<Vector(call'.args.position)>>
                 /\ Len(ObjectSimulationData(SimObjectData', new).velocity) = 1
                 /\ Len(ObjectSimulationData(SimObjectData', new).speed) = 1]_vars

\* C22: the registries of distinct Simulation instances are independent: a
\* newly constructed Simulation has an empty registry, and addObject on one
\* instance leaves the registry getData() returns on every other instance
\* unchanged.
C22_IndependentRegistries ==
    [][/\ (call'.op = "Simulation" /\ instances' # instances) =>
             GetData(simulation_data', instances') = <<>>
       /\ call'.op = "addObject" =>
             \A other \in 1..instances :
                 other # call'.args.self =>
                     GetData(simulation_data', other) = GetData(simulation_data, other)]_vars

\* The constructor argument that a configuration field is to hold.
ArgumentOf(f) ==
    CASE f = "_dt" -> "dt"
      [] f = "_G" -> "G"
      [] f = "_display_animation" -> "display_animation"
      [] f = "_save_gif" -> "save_gif"
      [] f = "_interval" -> "interval"
      [] f = "_max_iterations" -> "max_iterations"
      [] f = "_max_real_time" -> "max_real_time"
      [] f = "_max_sim_time" -> "max_sim_time"

\* C23: right after Simulation(...) with valid, correctly typed arguments every
\* configuration field run() reads (_dt, _G, _interval, _display_animation,
\* _save_gif, _max_iterations, _max_real_time, _max_sim_time) is defined and
\* holds the value passed to the constructor.
C23_ConstructorSetsFields ==
    call = NoCall =>
        \E a \in ConstructorArgs :
            \A f \in Fields : config[f] # Unset /\ config[f] = a[ArgumentOf(f)]

\* C24: in the legacy __updateSimObjectKinematics one update is simultaneous:
\* the force summed for body i on account of body j is computed from the
\* positions the bodies had when the update began, so it is the exact negation
\* of the force summed for body j on account of body i, whatever the order of
\* the bodies in the record.
C24_SimultaneousUpdate ==
    [][call'.op = "__updateSimObjectKinematics" =>
          LET record == Last(orbitSimulation_data)
          IN  \A i \in DOMAIN record, j \in DOMAIN record :
                  (i # j /\ record[i].position # record[j].position) =>
                      /\ force_vec'[<<i, j>>] = mutualForce(record[i], record[j])
                      /\ force_vec'[<<i, j>>] = VScale(FromInt(-1), force_vec'[<<j, i>>])]_vars

====
